---- MODULE Spec2Model ----
(***************************************************************************)
(* Model of fontster's text layout engine (src/src/layout.rs): Layout::new, *)
(* the derived Layout::default, Layout::append, Layout::width,              *)
(* Layout::height and Layout::glyphs.  f32 quantities are modelled by       *)
(* integers; the provider tables below only hold values for which every     *)
(* f32 operation of the code (+, -, *, max, min, / 2.0) is exact.           *)
(***************************************************************************)
EXTENDS Integers, Sequences, FiniteSets, TLC

\* Total number of characters a behaviour hands to successful append calls.
MaxChars == 4
\* Longest text of one styled run.
MaxRunLen == 2

VARIABLES settings, lines, status, panic, out, ctor, chars, drawn, run_len

vars == <<settings, lines, status, panic, out, ctor, chars, drawn, run_len>>

Max(a, b) == IF a >= b THEN a ELSE b
Min(a, b) == IF a <= b THEN a ELSE b
Abs(a) == IF a >= 0 THEN a ELSE -a

(***************************************************************************)
(* Settings                                                                *)
(***************************************************************************)
HorizontalAlign == {"Left", "Center", "Right"}

\* The f32 factors tried for LineHeight::Ratio and LineHeight::Smallest.
Ratios == {-1, 2}

LineHeight ==
    {[kind |-> "Font", ratio |-> 0]}
    \cup {[kind |-> k, ratio |-> r] : k \in {"Ratio", "Smallest"}, r \in Ratios}

LayoutSettings == [horizontal_align : HorizontalAlign, line_height : LineHeight]

LayoutSettingsDefault ==
    [horizontal_align |-> "Left", line_height |-> [kind |-> "Font", ratio |-> 0]]

(***************************************************************************)
(* Characters                                                              *)
(***************************************************************************)
Drawable == {"H", "i"}
Chars == Drawable \cup {"\n", "\t"}

\* char::is_control, mutated: a tab is taken for a drawable character.
is_control_NewlineOnly(ch) == ch = "\n"

\* char::is_control on the characters of Chars.
is_control(ch) == ch \in {"\n", "\t"}

(***************************************************************************)
(* The font-metrics provider (fontdue::Font), as tables.  fonts is the     *)
(* slice handed to append: indices 0 and 1 are fonts with horizontal line  *)
(* metrics, index 2 is a font without them, any larger index is out of     *)
(* range.  Tables hold the values at 32 px and scale linearly with the     *)
(* size.  The italic table has a glyph wholly above the baseline (H,      *)
(* ymin > 0) and one wholly below it (i, ymin + height < 0).               *)
(***************************************************************************)
fonts == <<"regular", "italic", "nohhea">>

Scale(v, px) == (v * px) \div 32

LineTable(f) ==
    IF f = "regular" THEN [ascent |-> 28, descent |-> -6, line_gap |-> 2]
    ELSE [ascent |-> 40, descent |-> -16, line_gap |-> 8]

horizontal_line_metrics(f, px) ==
    IF f = "nohhea" THEN [some |-> FALSE, ascent |-> 0, descent |-> 0, line_gap |-> 0]
    ELSE [some |-> TRUE,
          ascent |-> Scale(LineTable(f).ascent, px),
          descent |-> Scale(LineTable(f).descent, px),
          line_gap |-> Scale(LineTable(f).line_gap, px)]

GlyphTable(f, ch) ==
    IF f = "italic"
    THEN IF ch = "H"
         THEN [xmin |-> -4, ymin |-> 4, width |-> 12, height |-> 40, advance_width |-> 24]
         ELSE [xmin |-> 0, ymin |-> -8, width |-> 4, height |-> 4, advance_width |-> 8]
    ELSE IF ch = "H"
         THEN [xmin |-> 0, ymin |-> 0, width |-> 8, height |-> 22, advance_width |-> 10]
         ELSE [xmin |-> 1, ymin |-> -2, width |-> 2, height |-> 26, advance_width |-> 4]

metrics(f, ch, px) ==
    [xmin |-> Scale(GlyphTable(f, ch).xmin, px),
     ymin |-> Scale(GlyphTable(f, ch).ymin, px),
     width |-> Scale(GlyphTable(f, ch).width, px),
     height |-> Scale(GlyphTable(f, ch).height, px),
     advance_width |-> Scale(GlyphTable(f, ch).advance_width, px)]

\* Option<f32>: some = FALSE is None.
horizontal_kern(f, left, right, px) ==
    IF f = "italic" /\ left = "i" /\ right = "H"
    THEN [some |-> TRUE, val |-> Scale(-8, px)]
    ELSE IF f # "italic" /\ left = "H" /\ right = "i"
    THEN [some |-> TRUE, val |-> Scale(-3, px)]
    ELSE [some |-> FALSE, val |-> 0]

unwrap_or(opt, d) == IF opt.some THEN opt.val ELSE d

(***************************************************************************)
(* Styled runs                                                             *)
(***************************************************************************)
\* Font index, size and user payload of the runs tried; index 3 is out of
\* range of fonts.
Styles ==
    {[font_index |-> 0, font_size |-> 32, user |-> "red"],
     [font_index |-> 1, font_size |-> 16, user |-> "blue"],
     [font_index |-> 2, font_size |-> 32, user |-> "red"],
     [font_index |-> 3, font_size |-> 32, user |-> "blue"]}

Texts(n) == UNION {[1..k -> Chars] : k \in 0..n}

StyledText(n) ==
    {[text |-> t, font_size |-> s.font_size, font_index |-> s.font_index,
      user |-> s.user] : t \in Texts(n), s \in Styles}

(***************************************************************************)
(* Line                                                                    *)
(***************************************************************************)
LineDefault ==
    [width |-> 0, gap |-> 0, ascent |-> 0, descent |-> 0, glyphs |-> <<>>]

LineHeightOf(line) == line.ascent - line.descent + line.gap

(***************************************************************************)
(* Layout::append                                                          *)
(***************************************************************************)
\* self.lines.push(Line::default()), mutated: a newline met on a line
\* without glyphs opens no line.
PushLine_SkipBlank(ls) ==
    IF ls[Len(ls)].glyphs = <<>> THEN ls ELSE Append(ls, LineDefault)

\* self.lines.push(Line::default())
PushLine(ls) == Append(ls, LineDefault)

\* The x of a new glyph, mutated: the clamp at 0 is missing.
GlyphX_NoClamp(kern, xmin, line_width) == kern + xmin + line_width

\* The x of a new glyph: (kern + metrics.xmin as f32 + line.width).max(0.0)
GlyphX(kern, xmin, line_width) == Max(kern + xmin + line_width, 0)

\* line.gap, mutated: under Ratio and Smallest the gap is recomputed, not
\* kept at least what it was.
LineGap_Recomputed(lh, gap, line_gap, min) ==
    IF lh.kind = "Font" THEN Max(gap, line_gap) ELSE (min * lh.ratio) - min

\* line.gap = match self.settings.line_height { .. }, min being
\* line.ascent + line.descent.
LineGap(lh, gap, line_gap, min) ==
    IF lh.kind = "Font" THEN Max(gap, line_gap)
    ELSE Max(gap, (min * lh.ratio) - min)

\* One iteration of the loop over styled.text.chars(), for a layout that
\* has at least one line.
AppendChar(ls, ch, f, styled, lh) ==
    LET n == Len(ls)
        line == ls[n]
    IN  IF ch = "\n" THEN PushLine(ls)
        ELSE IF is_control(ch) THEN ls
        ELSE
          LET line_metrics == horizontal_line_metrics(f, styled.font_size)
              m == metrics(f, ch, styled.font_size)
              ascent == IF lh.kind = "Smallest"
                        THEN Max(line.ascent, m.height + m.ymin)
                        ELSE Max(line.ascent, line_metrics.ascent)
              descent == IF lh.kind = "Smallest"
                         THEN Min(line.descent, m.ymin)
                         ELSE Min(line.descent, line_metrics.descent)
              min == ascent + descent
              gap == LineGap(lh, line.gap, line_metrics.line_gap, min)
              kern == IF line.glyphs # <<>>
                      THEN unwrap_or(horizontal_kern(f, line.glyphs[Len(line.glyphs)].c,
                                                     ch, styled.font_size), 0)
                      ELSE 0
              glyph == [c |-> ch,
                        x |-> GlyphX(kern, m.xmin, line.width),
                        y |-> m.ymin,
                        width |-> m.width,
                        height |-> m.height,
                        font_index |-> styled.font_index,
                        font_size |-> styled.font_size,
                        user |-> styled.user]
          IN  [ls EXCEPT ![n] = [width |-> line.width + m.advance_width,
                                 gap |-> gap,
                                 ascent |-> ascent,
                                 descent |-> descent,
                                 glyphs |-> Append(line.glyphs, glyph)]]

\* The loop of append, mutated: the kerning predecessor is a local of the
\* call, so the first drawable character of a run is never kerned.
RECURSIVE AppendRest_RunLocalKern(_, _, _, _, _, _)
AppendRest_RunLocalKern(ls, text, f, styled, lh, fresh) ==
    IF text = <<>> THEN ls
    ELSE LET ch == Head(text)
             n == Len(ls)
             step == AppendChar(ls, ch, f, styled, lh)
             unkerned == GlyphX(0, metrics(f, ch, styled.font_size).xmin, ls[n].width)
             next == IF fresh /\ ch \in Drawable
                     THEN [step EXCEPT ![n].glyphs[Len(step[n].glyphs)].x = unkerned]
                     ELSE step
         IN  AppendRest_RunLocalKern(next, Tail(text), f, styled, lh,
                                     fresh /\ ch \notin Drawable)

AppendLoop_RunLocalKern(ls, text, f, styled, lh) ==
    AppendRest_RunLocalKern(ls, text, f, styled, lh, TRUE)

RECURSIVE AppendLoop(_, _, _, _, _)
AppendLoop(ls, text, f, styled, lh) ==
    IF text = <<>> THEN ls
    ELSE AppendLoop(AppendChar(ls, Head(text), f, styled, lh), Tail(text), f, styled, lh)

\* The glyph records the characters of a run are expected to yield
\* (history only).
RECURSIVE DrawnOf(_, _)
DrawnOf(text, styled) ==
    IF text = <<>> THEN <<>>
    ELSE IF Head(text) \notin Drawable THEN DrawnOf(Tail(text), styled)
    ELSE <<[c |-> Head(text), font_index |-> styled.font_index,
            font_size |-> styled.font_size, user |-> styled.user]>>
         \o DrawnOf(Tail(text), styled)

\* Where append panics, if it does: the index into fonts, the unwrap of the
\* line metrics, the unwrap of lines.last_mut().
AppendPanic(ls, styled) ==
    IF styled.font_index >= Len(fonts) THEN "index_out_of_bounds"
    ELSE IF ~horizontal_line_metrics(fonts[styled.font_index + 1], styled.font_size).some
    THEN "line_metrics_unwrap"
    ELSE IF styled.text # <<>> /\ ls = <<>> THEN "last_mut_unwrap"
    ELSE "none"

Append_(styled) ==
    /\ status = "ready"
    /\ IF AppendPanic(lines, styled) # "none"
       THEN /\ status' = "panicked"
            /\ panic' = AppendPanic(lines, styled)
            /\ UNCHANGED <<settings, lines, out, ctor, chars, drawn, run_len>>
       ELSE /\ Len(chars) + Len(styled.text) <= MaxChars
            /\ lines' = AppendLoop(lines, styled.text, fonts[styled.font_index + 1],
                                   styled, settings.line_height)
            /\ chars' = chars \o styled.text
            /\ drawn' = drawn \o DrawnOf(styled.text, styled)
            /\ run_len' = Len(styled.text)
            /\ UNCHANGED <<settings, status, panic, out, ctor>>

\* The runs tried are no longer than MaxRunLen and than what MaxChars leaves.
AppendCall ==
    \E styled \in StyledText(Min(MaxRunLen, MaxChars - Len(chars))) : Append_(styled)

(***************************************************************************)
(* Layout::width, Layout::height                                           *)
(***************************************************************************)
RECURSIVE WidthLoop(_, _, _)
WidthLoop(ls, i, w) ==
    IF i > Len(ls) THEN w ELSE WidthLoop(ls, i + 1, Max(ls[i].width, w))

width(ls) == WidthLoop(ls, 1, 0)

RECURSIVE HeightLoop(_, _, _, _)
HeightLoop(ls, i, h, lastheight) ==
    IF i > Len(ls) THEN h
    ELSE IF Len(ls[i].glyphs) = 0 THEN HeightLoop(ls, i + 1, h + lastheight, lastheight)
    ELSE HeightLoop(ls, i + 1, h + LineHeightOf(ls[i]), LineHeightOf(ls[i]))

\* height(), mutated: a line without glyphs adds nothing.
RECURSIVE HeightLoop_BlankZero(_, _, _)
HeightLoop_BlankZero(ls, i, h) ==
    IF i > Len(ls) THEN h
    ELSE IF Len(ls[i].glyphs) = 0 THEN HeightLoop_BlankZero(ls, i + 1, h)
    ELSE HeightLoop_BlankZero(ls, i + 1, h + LineHeightOf(ls[i]))

height_BlankZero(ls) == HeightLoop_BlankZero(ls, 1, 0)

height(ls) == HeightLoop(ls, 1, 0, 0)

(***************************************************************************)
(* Layout::glyphs                                                          *)
(***************************************************************************)
\* x_offset, mutated: Center shifts by the whole difference.
XOffset_CenterWhole(st, w, line) ==
    IF st.horizontal_align = "Left" THEN 0 ELSE w - line.width

XOffset(st, w, line) ==
    IF st.horizontal_align = "Left" THEN 0
    ELSE IF st.horizontal_align = "Center" THEN (w - line.width) \div 2
    ELSE w - line.width

\* The placement of a line's glyphs, mutated: the relative y is not negated.
PlaceLine_NoNegate(line, x_offset, baseline) ==
    [k \in 1..Len(line.glyphs) |->
        [line.glyphs[k] EXCEPT !.x = @ + x_offset,
                               !.y = @ + baseline - line.glyphs[k].height]]

PlaceLine(line, x_offset, baseline) ==
    [k \in 1..Len(line.glyphs) |->
        [line.glyphs[k] EXCEPT !.x = @ + x_offset,
                               !.y = @ * (-1) + baseline - line.glyphs[k].height]]

\* The line loop of glyphs(), mutated: a line without glyphs leaves the
\* baseline where it is.
RECURSIVE GlyphsLoop_BlankStays(_, _, _, _, _, _, _)
GlyphsLoop_BlankStays(st, ls, w, i, baseline, lastheight, ret) ==
    IF i > Len(ls) THEN ret
    ELSE IF Len(ls[i].glyphs) = 0
    THEN GlyphsLoop_BlankStays(st, ls, w, i + 1, baseline, lastheight, ret)
    ELSE GlyphsLoop_BlankStays(st, ls, w, i + 1,
                    baseline + ls[i].ascent + (-ls[i].descent) + ls[i].gap,
                    LineHeightOf(ls[i]),
                    ret \o PlaceLine(ls[i], XOffset(st, w, ls[i]), baseline + ls[i].ascent))

\* The variable baseline of glyphs() once the line loop has passed lines
\* i..n, having started line i with the given baseline and lastheight.
RECURSIVE BaselineLoop(_, _, _, _, _)
BaselineLoop(ls, i, n, baseline, lastheight) ==
    IF i > n THEN baseline
    ELSE IF Len(ls[i].glyphs) = 0
    THEN BaselineLoop(ls, i + 1, n, baseline + lastheight, lastheight)
    ELSE BaselineLoop(ls, i + 1, n,
                      baseline + ls[i].ascent + (-ls[i].descent) + ls[i].gap,
                      LineHeightOf(ls[i]))

RECURSIVE GlyphsLoop(_, _, _, _, _, _, _)
GlyphsLoop(st, ls, w, i, baseline, lastheight, ret) ==
    IF i > Len(ls) THEN ret
    ELSE IF Len(ls[i].glyphs) = 0
    THEN GlyphsLoop(st, ls, w, i + 1, baseline + lastheight, lastheight, ret)
    ELSE GlyphsLoop(st, ls, w, i + 1,
                    baseline + ls[i].ascent + (-ls[i].descent) + ls[i].gap,
                    LineHeightOf(ls[i]),
                    ret \o PlaceLine(ls[i], XOffset(st, w, ls[i]), baseline + ls[i].ascent))

glyphs(st, ls) == GlyphsLoop(st, ls, width(ls), 1, 0, 0, <<>>)

Glyphs ==
    /\ status = "ready"
    /\ out' = glyphs(settings, lines)
    /\ status' = "consumed"
    /\ UNCHANGED <<settings, lines, panic, ctor, chars, drawn, run_len>>

(***************************************************************************)
(* Construction and specification                                          *)
(***************************************************************************)
LayoutNew(s) == [settings |-> s, lines |-> <<LineDefault>>]

\* #[derive(Default)] on Layout: every field's Default, an empty Vec of lines.
LayoutDerivedDefault == [settings |-> LayoutSettingsDefault, lines |-> <<>>]

Init ==
    /\ \E c \in {"new", "default"} :
         /\ ctor = c
         /\ \E s \in LayoutSettings :
              LET l == IF c = "new" THEN LayoutNew(s) ELSE LayoutDerivedDefault
              IN  settings = l.settings /\ lines = l.lines
    /\ status = "ready"
    /\ panic = "none"
    /\ out = <<>>
    /\ chars = <<>>
    /\ drawn = <<>>
    /\ run_len = 0

Next == AppendCall \/ Glyphs

Spec == Init /\ [][Next]_vars

(***************************************************************************)
(* Helpers of the properties                                               *)
(***************************************************************************)
HasGlyphs(line) == Len(line.glyphs) > 0

IsPrefix(a, b) == Len(a) <= Len(b) /\ SubSeq(b, 1, Len(a)) = a

\* The text a step hands to the loop of append.
Added == SubSeq(chars', Len(chars) + 1, Len(chars'))

AllAre(t, ch) == t # <<>> /\ \A k \in 1..Len(t) : t[k] = ch

Newlines(t) == Cardinality({k \in 1..Len(t) : t[k] = "\n"})

\* The font handle a glyph was laid out with.
FontOf(g) == fonts[g.font_index + 1]

(***************************************************************************)
(* C1: every engine a public constructor yields (Layout::new or the        *)
(* derived Layout::default) has at least one line before and after any     *)
(* append calls, no append removes or reorders an existing line, and append *)
(* never fails on lines.last_mut().unwrap().                               *)
(***************************************************************************)
C1_KeepsLines ==
    /\ Len(lines') >= Len(lines)
    /\ \A k \in 1..Len(lines) :
         IF k < Len(lines) THEN lines'[k] = lines[k]
         ELSE IsPrefix(lines[k].glyphs, lines'[k].glyphs)

C1_AlwaysALine ==
    /\ [](Len(lines) >= 1 /\ panic # "last_mut_unwrap")
    /\ [][C1_KeepsLines]_vars

(***************************************************************************)
(* C2: under Ratio(factor) and Smallest(factor) every line that received a *)
(* drawable character has gap = (ascent + |descent|) * factor              *)
(* - (ascent + |descent|), so its height is (ascent + |descent|) * factor, *)
(* the gap being negative for a factor below 1.                            *)
(***************************************************************************)
C2_GapIsRatioOfExtent ==
    settings.line_height.kind \in {"Ratio", "Smallest"} =>
        \A k \in 1..Len(lines) :
            HasGlyphs(lines[k]) =>
                LET extent == lines[k].ascent + Abs(lines[k].descent)
                IN  /\ lines[k].gap = extent * settings.line_height.ratio - extent
                    /\ LineHeightOf(lines[k]) = extent * settings.line_height.ratio

(***************************************************************************)
(* C3: under Smallest (TightFit) append never fails for want of line       *)
(* metrics of the run's font.                                              *)
(***************************************************************************)
C3_TightFitNeedsNoLineMetrics ==
    settings.line_height.kind = "Smallest" => panic # "line_metrics_unwrap"

(***************************************************************************)
(* C4: under Font and Ratio, a font without line metrics makes append      *)
(* return a failure value to its caller; it does not panic.                *)
(***************************************************************************)
C4_MissingLineMetricsIsNoPanic ==
    settings.line_height.kind \in {"Font", "Ratio"} =>
        ~(status = "panicked" /\ panic = "line_metrics_unwrap")

(***************************************************************************)
(* C5: on an engine made by Layout::new the number of lines is 1 plus the  *)
(* number of newlines appended so far, and a run of N newlines adds N      *)
(* default (empty) lines after the existing ones, which it leaves as they  *)
(* were.                                                                   *)
(***************************************************************************)
C5_NewlinesOnly ==
    AllAre(Added, "\n") =>
        lines' = lines \o [k \in 1..Len(Added) |-> LineDefault]

C5_LinePerNewline ==
    /\ [](ctor = "new" => Len(lines) = 1 + Newlines(chars))
    /\ [][C5_NewlinesOnly]_vars

\* "H\n\nH": three lines, the interior one empty.
C5_Witness ==
    /\ ctor = "new"
    /\ Newlines(chars) = 2
    /\ Len(lines) = 3
    /\ HasGlyphs(lines[1]) /\ lines[2] = LineDefault /\ HasGlyphs(lines[3])

(***************************************************************************)
(* What glyphs() returns, line by line                                     *)
(***************************************************************************)
RECURSIVE GlyphCount(_, _)
GlyphCount(ls, n) == IF n = 0 THEN 0 ELSE GlyphCount(ls, n - 1) + Len(ls[n].glyphs)

\* The placement returned for glyph k of line i.
OutOf(i, k) == out[GlyphCount(lines, i - 1) + k]

WithGlyphs(ls) == {j \in 1..Len(ls) : HasGlyphs(ls[j])}

Greatest(S) == CHOOSE m \in S : \A n \in S : n <= m

\* The vertical space a line takes: its own height, or for a line without
\* glyphs that of the nearest line with glyphs before it, 0 if there is none.
Contribution(ls, i) ==
    IF HasGlyphs(ls[i]) THEN ls[i].ascent - ls[i].descent + ls[i].gap
    ELSE LET before == {j \in WithGlyphs(ls) : j < i}
         IN  IF before = {} THEN 0
             ELSE LET p == ls[Greatest(before)] IN p.ascent - p.descent + p.gap

RECURSIVE Stacked(_, _)
Stacked(ls, n) == IF n = 0 THEN 0 ELSE Stacked(ls, n - 1) + Contribution(ls, n)

BlockWidth(ls) == Greatest({ls[j].width : j \in 1..Len(ls)} \cup {0})

(***************************************************************************)
(* C6: glyphs() returns one placement per appended character that is no    *)
(* newline or other control character, in the order appended, each with    *)
(* the character, bitmap width and height, font index, font size and user  *)
(* payload of its run; a run of control characters only changes no line.   *)
(***************************************************************************)
C6_Expected ==
    [k \in 1..Len(drawn) |->
        LET m == metrics(fonts[drawn[k].font_index + 1], drawn[k].c, drawn[k].font_size)
        IN  [c |-> drawn[k].c, width |-> m.width, height |-> m.height,
             font_index |-> drawn[k].font_index, font_size |-> drawn[k].font_size,
             user |-> drawn[k].user]]

C6_Returned ==
    [k \in 1..Len(out) |->
        [c |-> out[k].c, width |-> out[k].width, height |-> out[k].height,
         font_index |-> out[k].font_index, font_size |-> out[k].font_size,
         user |-> out[k].user]]

C6_ControlOnly == AllAre(Added, "\t") => lines' = lines

C6_OnePlacementPerDrawable ==
    /\ [](status = "consumed" => C6_Returned = C6_Expected)
    /\ [][C6_ControlOnly]_vars

\* Two runs with different fonts and payloads on two lines, a tab among them.
C6_Witness ==
    /\ status = "consumed"
    /\ Len(out) = 2
    /\ out[1].user # out[2].user
    /\ \E k \in 1..Len(chars) : chars[k] = "\t"
    /\ Len(lines) = 2 /\ HasGlyphs(lines[1]) /\ HasGlyphs(lines[2])

(***************************************************************************)
(* C7: height() is the sum over the lines of ascent - descent + gap for a  *)
(* line with glyphs and, for a line without, the height of the nearest     *)
(* line with glyphs before it (0 if none): K blank lines after a line of   *)
(* height h add K * h, leading blank lines add 0.                          *)
(***************************************************************************)
C7_HeightIsStackedLines == height(lines) = Stacked(lines, Len(lines))

\* "\nH\n\n": a leading blank line adding 0, then a line of height h and
\* two blank lines adding h each.
C7_Witness ==
    /\ status = "ready"
    /\ Len(lines) = 4
    /\ WithGlyphs(lines) = {2}
    /\ LineHeightOf(lines[2]) > 0
    /\ height(lines) = 3 * LineHeightOf(lines[2])

(***************************************************************************)
(* C8: glyphs() shifts every glyph of a line by one offset: 0 for Left,    *)
(* (width() - line.width) / 2 for Center, width() - line.width for Right,  *)
(* width() being the greatest line width; a single line and the widest     *)
(* line are not shifted.                                                   *)
(***************************************************************************)
C8_Offset(i) ==
    LET slack == BlockWidth(lines) - lines[i].width
    IN  CASE settings.horizontal_align = "Left" -> 0
          [] settings.horizontal_align = "Center" -> slack \div 2
          [] settings.horizontal_align = "Right" -> slack

C8_AlignmentOffset ==
    status = "consumed" =>
        /\ width(lines) = BlockWidth(lines)
        /\ \A i \in WithGlyphs(lines) : \A k \in 1..Len(lines[i].glyphs) :
             /\ OutOf(i, k).x = lines[i].glyphs[k].x + C8_Offset(i)
             /\ (Len(lines) = 1 \/ lines[i].width = width(lines)) =>
                    OutOf(i, k).x = lines[i].glyphs[k].x

\* Two lines of differing width, centred: the shorter one is shifted by half
\* the difference.
C8_Witness ==
    /\ status = "consumed"
    /\ settings.horizontal_align = "Center"
    /\ Len(lines) = 2 /\ HasGlyphs(lines[1]) /\ HasGlyphs(lines[2])
    /\ lines[2].width < lines[1].width
    /\ OutOf(2, 1).x = lines[2].glyphs[1].x + (lines[1].width - lines[2].width) \div 2
    /\ OutOf(2, 1).x > lines[2].glyphs[1].x

(***************************************************************************)
(* C9: glyphs() stacks the lines on a running baseline from 0: a line with *)
(* glyphs has its baseline at the space taken by the lines before it plus  *)
(* its ascent, and its glyphs at y = -relative y + baseline - bitmap       *)
(* height; ascent 28, descent -6, gap 2 on two lines give baselines 28 and *)
(* 64.                                                                     *)
(***************************************************************************)
C9_Baseline(i) == Stacked(lines, i - 1) + lines[i].ascent

C9_Example ==
    (/\ Len(lines) = 2
     /\ \A i \in 1..2 : /\ HasGlyphs(lines[i])
                        /\ lines[i].ascent = 28 /\ lines[i].descent = -6
                        /\ lines[i].gap = 2)
    => /\ \A k \in 1..Len(lines[1].glyphs) :
            OutOf(1, k).y = 28 - lines[1].glyphs[k].height - lines[1].glyphs[k].y
       /\ \A k \in 1..Len(lines[2].glyphs) :
            OutOf(2, k).y = 64 - lines[2].glyphs[k].height - lines[2].glyphs[k].y

C9_BaselineStacking ==
    status = "consumed" =>
        /\ \A i \in WithGlyphs(lines) : \A k \in 1..Len(lines[i].glyphs) :
             OutOf(i, k).y = (-lines[i].glyphs[k].y) + C9_Baseline(i)
                             - lines[i].glyphs[k].height
        /\ C9_Example

\* "Hi\ni" under Font with the regular font: baselines 28 and 64.
C9_Witness ==
    /\ status = "consumed"
    /\ settings.line_height.kind = "Font"
    /\ Len(lines) = 2 /\ Len(lines[1].glyphs) = 2 /\ Len(lines[2].glyphs) = 1
    /\ \A i \in 1..2 : lines[i].ascent = 28 /\ lines[i].descent = -6 /\ lines[i].gap = 2
    /\ OutOf(1, 1).y + OutOf(1, 1).height + lines[1].glyphs[1].y = 28
    /\ OutOf(2, 1).y + OutOf(2, 1).height + lines[2].glyphs[1].y = 64
    /\ lines[2].glyphs[1].y # 0

(***************************************************************************)
(* C10: a drawable character is placed at relative x = max(0, kerning +    *)
(* xmin + line width before it), the kerning being 0 for the first glyph   *)
(* of a line and else the provider's value for (previous glyph of the      *)
(* line, this character) at the run's size, 0 when it has none; a line's   *)
(* width is the sum of the advance widths of its glyphs.                    *)
(***************************************************************************)
RECURSIVE C10_Advance(_, _)
C10_Advance(gs, n) ==
    IF n = 0 THEN 0
    ELSE C10_Advance(gs, n - 1)
         + metrics(FontOf(gs[n]), gs[n].c, gs[n].font_size).advance_width

C10_Kerning(gs, k) ==
    IF k = 1 THEN 0
    ELSE LET kern == horizontal_kern(FontOf(gs[k]), gs[k - 1].c, gs[k].c, gs[k].font_size)
         IN  IF kern.some THEN kern.val ELSE 0

C10_X(gs, k) ==
    LET sum == C10_Kerning(gs, k)
               + metrics(FontOf(gs[k]), gs[k].c, gs[k].font_size).xmin
               + C10_Advance(gs, k - 1)
    IN  IF sum < 0 THEN 0 ELSE sum

C10_KernedClampedX ==
    \A i \in 1..Len(lines) :
        /\ lines[i].width = C10_Advance(lines[i].glyphs, Len(lines[i].glyphs))
        /\ \A k \in 1..Len(lines[i].glyphs) :
             lines[i].glyphs[k].x = C10_X(lines[i].glyphs, k)

\* Kerning -3, xmin 1, width 10: "Hi" puts i at 8; and a first glyph with a
\* negative xmin, clamped to 0, on the next line.
C10_Witness ==
    /\ Len(lines) = 2
    /\ Len(lines[1].glyphs) = 2
    /\ lines[1].glyphs[1].c = "H" /\ lines[1].glyphs[2].c = "i"
    /\ horizontal_kern(FontOf(lines[1].glyphs[2]), "H", "i", 32).val = -3
    /\ lines[1].glyphs[2].x = 8
    /\ lines[1].width = 14
    /\ HasGlyphs(lines[2])
    /\ metrics(FontOf(lines[2].glyphs[1]), lines[2].glyphs[1].c,
               lines[2].glyphs[1].font_size).xmin < 0
    /\ lines[2].glyphs[1].x = 0

(***************************************************************************)
(* C11: append does not depend on how text is split into runs: appending   *)
(* s1 and then s2 with one font index, size and payload leaves the lines   *)
(* (widths, ascent, descent, gap, glyph positions, kerning across the run  *)
(* boundary) as appending s1 \o s2 in one call does, whence width(),       *)
(* height() and glyphs() agree; and width() never decreases over an append.*)
(***************************************************************************)
C11_InitialLines == IF ctor = "new" THEN <<LineDefault>> ELSE <<>>

\* The lines left by appending every character of cs in a call of its own,
\* the drawable ones with the font, size and payload recorded in ds.
RECURSIVE C11_CharByChar(_, _, _, _)
C11_CharByChar(ls, cs, ds, lh) ==
    IF cs = <<>> THEN ls
    ELSE IF Head(cs) \in Drawable
    THEN C11_CharByChar(AppendLoop(ls, <<Head(cs)>>, FontOf(Head(ds)), Head(ds), lh),
                        Tail(cs), Tail(ds), lh)
    ELSE C11_CharByChar(AppendLoop(ls, <<Head(cs)>>, fonts[1],
                                   [font_index |-> 0, font_size |-> 32, user |-> "red"], lh),
                        Tail(cs), ds, lh)

C11_WidthGrows == width(lines') >= width(lines)

C11_SplitInsensitive ==
    /\ [](lines = C11_CharByChar(C11_InitialLines, chars, drawn, settings.line_height))
    /\ [][C11_WidthGrows]_vars

\* "H" appended by one call and "i" by the next, same font, size and
\* payload: i is kerned against H (x = 8) and the width is that of "Hi".
C11_Witness ==
    /\ status = "ready"
    /\ chars = <<"H", "i">>
    /\ run_len = 1
    /\ drawn[1].font_index = 0 /\ drawn[2].font_index = 0
    /\ drawn[1].user = drawn[2].user
    /\ lines[1].glyphs[2].x = 8
    /\ width(lines) = 14

(***************************************************************************)
(* C12: on every line with a glyph, under Font and Ratio the ascent is the *)
(* greatest and the descent the least of the font-reported line ascent and *)
(* descent over the characters placed on the line; under Smallest the      *)
(* ascent is the greatest bitmap height + ymin and the descent the least   *)
(* ymin over its glyphs; under Font the gap is the font-reported line gap. *)
(***************************************************************************)
Least(S) == CHOOSE m \in S : \A n \in S : m <= n

C12_LineMetricsOf(g) == horizontal_line_metrics(FontOf(g), g.font_size)

C12_Range(line) == 1..Len(line.glyphs)

C12_LineExtremes ==
    \A i \in WithGlyphs(lines) :
        LET line == lines[i]
            gs == line.glyphs
        IN  IF settings.line_height.kind = "Smallest"
            THEN /\ line.ascent = Greatest({gs[k].height + gs[k].y : k \in C12_Range(line)})
                 /\ line.descent = Least({gs[k].y : k \in C12_Range(line)})
            ELSE /\ line.ascent
                      = Greatest({C12_LineMetricsOf(gs[k]).ascent : k \in C12_Range(line)})
                 /\ line.descent
                      = Least({C12_LineMetricsOf(gs[k]).descent : k \in C12_Range(line)})
                 /\ settings.line_height.kind = "Font" =>
                      line.gap
                        = Greatest({C12_LineMetricsOf(gs[k]).line_gap : k \in C12_Range(line)})

(***************************************************************************)
(* C13: height() and glyphs() stack the lines alike: the baseline glyphs() *)
(* gives a line with glyphs is height() of the lines before it plus the    *)
(* line's ascent, the running baseline after the last line is height(),    *)
(* and with no negative gap every such baseline lies in 0..height().       *)
(***************************************************************************)
\* The baseline a returned glyph was placed on.
C13_BaselineOf(i, k) ==
    OutOf(i, k).y + lines[i].glyphs[k].height + lines[i].glyphs[k].y

C13_HeightBefore(i) == height(SubSeq(lines, 1, i - 1))

C13_HeightAndGlyphsAgree ==
    /\ BaselineLoop(lines, 1, Len(lines), 0, 0) = height(lines)
    /\ status = "consumed" =>
         \A i \in WithGlyphs(lines) : \A k \in 1..Len(lines[i].glyphs) :
            /\ C13_BaselineOf(i, k) = C13_HeightBefore(i) + lines[i].ascent
            /\ C13_BaselineOf(i, k) = BaselineLoop(lines, 1, i - 1, 0, 0) + lines[i].ascent
            /\ (\A j \in 1..Len(lines) : lines[j].gap >= 0) =>
                  (0 <= C13_BaselineOf(i, k) /\ C13_BaselineOf(i, k) <= height(lines))

\* "H\n\nH": a line with glyphs, a blank one, a line with glyphs; the last
\* baseline is twice the first line's height plus the third line's ascent.
C13_Witness ==
    /\ status = "consumed"
    /\ Len(lines) = 3
    /\ WithGlyphs(lines) = {1, 3}
    /\ LineHeightOf(lines[1]) > 0
    /\ C13_BaselineOf(3, 1) = 2 * LineHeightOf(lines[1]) + lines[3].ascent
    /\ C13_BaselineOf(3, 1) < height(lines)

(***************************************************************************)
(* C14: in every state reached from Layout::new by append calls every line *)
(* has ascent >= 0, descent <= 0 and gap >= 0, and a line without glyphs   *)
(* has width, ascent, descent and gap 0; an append never lowers a line's   *)
(* ascent or gap, never raises its descent, and changes no line but the    *)
(* last one it found and those it opens.                                   *)
(***************************************************************************)
C14_Signs ==
    ctor = "new" =>
        \A i \in 1..Len(lines) :
            /\ lines[i].ascent >= 0 /\ lines[i].descent <= 0 /\ lines[i].gap >= 0
            /\ ~HasGlyphs(lines[i]) =>
                 /\ lines[i].width = 0 /\ lines[i].ascent = 0
                 /\ lines[i].descent = 0 /\ lines[i].gap = 0

C14_Monotone ==
    /\ Len(lines') >= Len(lines)
    /\ \A i \in 1..Len(lines) :
         /\ lines'[i].ascent >= lines[i].ascent
         /\ lines'[i].gap >= lines[i].gap
         /\ lines'[i].descent <= lines[i].descent
         /\ i < Len(lines) => lines'[i] = lines[i]

====
